---- MODULE Spec2Model ----
(***************************************************************************)
(* Model of tredis.sets.SetsMixin: the Redis set commands of the tredis    *)
(* client.  A call builds a command vector, and either registers it with   *)
(* the pipeline accumulator (pipeline mode) or hands it to the executor    *)
(* (direct mode) with a continuation that normalizes the reply.            *)
(*                                                                         *)
(* Byte strings are sequences of one-character strings.  Python integers   *)
(* are arbitrary-precision: [neg, mag] with mag a little-endian sequence   *)
(* of limbs in base 2^15, without leading zero limbs (zero is <<>>).       *)
(***************************************************************************)
EXTENDS Integers, Sequences, FiniteSets, TLC

\* ------------------------------------------------------------------------
\* Bounds of the model
\* ------------------------------------------------------------------------
\* calls per behaviour; behaviours made of pipeline calls only may go on to
\* MaxBatch calls
MaxCalls == 2
MaxBatch == 3

\* ------------------------------------------------------------------------
\* Python integers, ascii() and int()
\* ------------------------------------------------------------------------
Base == 2^15

Digits == <<"0", "1", "2", "3", "4", "5", "6", "7", "8", "9">>

DigitVal(ch) == (CHOOSE d \in 1..10 : Digits[d] = ch) - 1

IsDigit(ch) == \E d \in 1..10 : Digits[d] = ch

\* the element of a singleton; a value bound by "x \in {e}" is computed
\* once, however often x is used
The(S) == CHOOSE x \in S : TRUE

RECURSIVE MulAdd(_, _, _)
\* mag * m + carry, limb by limb from the least significant limb
MulAdd(mag, m, carry) ==
    IF mag = <<>>
    THEN IF carry = 0 THEN <<>>
         ELSE <<carry % Base>> \o MulAdd(<<>>, m, carry \div Base)
    ELSE The({<<t % Base>> \o MulAdd(Tail(mag), m, t \div Base) :
                 t \in {Head(mag) * m + carry}})

RECURSIVE Strip(_)
\* drop the zero limbs at the most significant end
Strip(mag) ==
    IF mag = <<>> THEN mag
    ELSE IF mag[Len(mag)] = 0 THEN Strip(SubSeq(mag, 1, Len(mag) - 1))
    ELSE mag

RECURSIVE DivSmall(_, _)
\* quotient and remainder of mag by the small divisor d
DivSmall(mag, d) ==
    IF mag = <<>> THEN [q |-> <<>>, r |-> 0]
    ELSE The({LET cur == hi.r * Base + Head(mag)
              IN  [q |-> <<cur \div d>> \o hi.q, r |-> cur % d] :
                 hi \in {DivSmall(Tail(mag), d)}})

PyInt(n) == [neg |-> n < 0, mag |-> MulAdd(<<>>, 1, IF n < 0 THEN -n ELSE n)]

RECURSIVE MagDigits(_)
\* the decimal digits of a non-zero magnitude, most significant first
MagDigits(mag) ==
    IF mag = <<>> THEN <<>>
    ELSE The({The({MagDigits(q) : q \in {Strip(dm.q)}})
                 \o <<Digits[dm.r + 1]>> : dm \in {DivSmall(mag, 10)}})

\* ascii(n).encode('ascii') for an int n: its base-ten representation
ascii(n) ==
    IF n.mag = <<>> THEN <<"0">>
    ELSE (IF n.neg THEN <<"-">> ELSE <<>>) \o MagDigits(n.mag)

RECURSIVE ParseMag(_, _)
ParseMag(s, acc) ==
    IF s = <<>> THEN acc
    ELSE The({ParseMag(Tail(s), a) :
                 a \in {MulAdd(acc, 10, DigitVal(Head(s)))}})

\* int(s) for a byte string s holding an optionally signed decimal number
int(s) ==
    LET neg  == s # <<>> /\ Head(s) = "-"
        body == IF neg THEN Tail(s) ELSE s
        mag  == ParseMag(body, <<>>)
    IN  [neg |-> neg /\ mag # <<>>, mag |-> mag]

\* ------------------------------------------------------------------------
\* Byte strings, arguments and replies
\* ------------------------------------------------------------------------
SADD        == <<"S", "A", "D", "D">>
SCARD       == <<"S", "C", "A", "R", "D">>
SDIFF       == <<"S", "D", "I", "F", "F">>
SDIFFSTORE  == <<"S", "D", "I", "F", "F", "S", "T", "O", "R", "E">>
SINTER      == <<"S", "I", "N", "T", "E", "R">>
SINTERSTORE == <<"S", "I", "N", "T", "E", "R", "S", "T", "O", "R", "E">>
SISMEMBER   == <<"S", "I", "S", "M", "E", "M", "B", "E", "R">>
SMEMBERS    == <<"S", "M", "E", "M", "B", "E", "R", "S">>
SMOVE       == <<"S", "M", "O", "V", "E">>
SPOP        == <<"S", "P", "O", "P">>
SRANDMEMBER == <<"S", "R", "A", "N", "D", "M", "E", "M", "B", "E", "R">>
SREM        == <<"S", "R", "E", "M">>
SSCAN       == <<"S", "S", "C", "A", "N">>
SUNION      == <<"S", "U", "N", "I", "O", "N">>
SUNIONSTORE == <<"S", "U", "N", "I", "O", "N", "S", "T", "O", "R", "E">>
MATCH       == <<"M", "A", "T", "C", "H">>
COUNT       == <<"C", "O", "U", "N", "T">>

K == <<"k">>
J == <<"j">>
A == <<"a">>
B == <<"b">>
C == <<"c">>

Keys        == {K, J}
Members     == {A, B}
MemberOrder == <<A, B, C>>

PyZero == [neg |-> FALSE, mag |-> <<>>]

\* An optional argument: None, or a supplied value
None     == [some |-> FALSE, int |-> PyZero, bytes |-> <<>>]
SomeInt(n)   == [some |-> TRUE, int |-> PyInt(n), bytes |-> <<>>]
SomeBytes(s) == [some |-> TRUE, int |-> PyZero, bytes |-> s]

\* Python truthiness of an optional int / an optional byte string
TruthyInt(x)   == x.some /\ x.int.mag # <<>>
TruthyBytes(x) == x.some /\ x.bytes # <<>>

\* Values: raw replies of the server and normalized results.
\*   int    i            an integer reply
\*   bool   i (0 or 1)   a Python bool
\*   bulk   s            a bulk string
\*   nil                 the nil reply
\*   array  a            an array of bulk strings
\*   scan   s, a         the raw SSCAN reply [cursor-string, members]
\*   tuple  c, a         the normalized SSCAN result (cursor, members)
Val(t, i, c, s, a) == [t |-> t, i |-> i, c |-> c, s |-> s, a |-> a]
IntV(n)      == Val("int", n, PyZero, <<>>, <<>>)
BoolV(b)     == Val("bool", IF b THEN 1 ELSE 0, PyZero, <<>>, <<>>)
BulkV(s)     == Val("bulk", 0, PyZero, s, <<>>)
NilV         == Val("nil", 0, PyZero, <<>>, <<>>)
ArrayV(a)    == Val("array", 0, PyZero, <<>>, a)
ScanV(s, a)  == Val("scan", 0, PyZero, s, a)
TupleV(c, a) == Val("tuple", 0, c, <<>>, a)

\* The outcome of an asynchronous result: a value or an exception
NoExc  == "none"
Ok(v)   == [ok |-> TRUE, val |-> v, exc |-> NoExc]
Fail(e) == [ok |-> FALSE, val |-> NilV, exc |-> e]

\* Transport failures the executor can resolve with
TransportErrors == {"ConnectionError", "TimeoutError"}
\* The exception carrying an error reply of the server
RedisError == "RedisError"

\* ------------------------------------------------------------------------
\* The Redis server the commands run against (set semantics as described
\* by the docstrings of the operations)
\* ------------------------------------------------------------------------
ToSet(seq) == {seq[i] : i \in 1..Len(seq)}

\* the members of S in the server's fixed iteration order
SetToSeq(S) == SelectSeq(MemberOrder, LAMBDA m : m \in S)

\* the value of a small decimal token
TokenNat(tok) == LET n == int(tok) IN IF n.mag = <<>> THEN 0 ELSE n.mag[1]

\* Numbers with their decimal form and their limbs
Numerals ==
    << [str |-> <<"0">>, mag |-> <<>>],
       [str |-> <<"7">>, mag |-> <<7>>],
       [str |-> <<"3", "2", "7", "6", "8">>, mag |-> <<0, 1>>],
       [str |-> <<"1", "0", "0", "0", "0", "0", "0", "0", "0", "0", "0", "0", "0">>,
        mag |-> <<4096, 10570, 931>>],
       [str |-> <<"4", "2", "9", "4", "9", "6", "7", "2", "9", "6">>,
        mag |-> <<0, 0, 4>>],
       [str |-> <<"9", "2", "2", "3", "3", "7", "2", "0", "3", "6",
                  "8", "5", "4", "7", "7", "5", "8", "0", "8">>,
        mag |-> <<0, 0, 0, 0, 8>>],
       [str |-> <<"1", "8", "4", "4", "6", "7", "4", "4", "0", "7",
                  "3", "7", "0", "9", "5", "5", "1", "6", "1", "5">>,
        mag |-> <<32767, 32767, 32767, 32767, 15>>],
       [str |-> <<"2">>, mag |-> <<2>>] >>

\* Cursors the server hands out for the iteration positions 1, 2, 3:
\* opaque unsigned 64-bit numbers, here 2^64-1, 2^32 and 7
CursorTable == <<Numerals[7].str, Numerals[5].str, Numerals[2].str>>

CursorOf(pos) == IF pos \in 1..Len(CursorTable) THEN CursorTable[pos] ELSE <<"0">>

PosOf(tok) ==
    IF \E p \in 1..Len(CursorTable) : CursorTable[p] = tok
    THEN CHOOSE p \in 1..Len(CursorTable) : CursorTable[p] = tok
    ELSE 0

RECURSIVE Glob(_, _)
\* glob-style match of the byte string s against the pattern p
Glob(p, s) ==
    IF p = <<>> THEN s = <<>>
    ELSE IF Head(p) = "*"
         THEN Glob(Tail(p), s) \/ (s # <<>> /\ Glob(p, Tail(s)))
         ELSE s # <<>> /\ Head(s) = Head(p) /\ Glob(Tail(p), Tail(s))

\* the pattern of the MATCH option of an SSCAN command, "*" when absent
MatchOf(cmd) ==
    IF Len(cmd) >= 5 /\ cmd[4] = MATCH THEN cmd[5] ELSE <<"*">>

Arity == Fail(RedisError)

SetsOf(d, keys) == [i \in 1..Len(keys) |-> d[keys[i]]]

Diff(sets)  == sets[1] \ UNION {sets[i] : i \in 2..Len(sets)}
Inter(sets) == {m \in sets[1] : \A i \in 1..Len(sets) : m \in sets[i]}
Union(sets) == UNION {sets[i] : i \in 1..Len(sets)}

Combine(name, sets) ==
    IF name \in {SDIFF, SDIFFSTORE} THEN Diff(sets)
    ELSE IF name \in {SINTER, SINTERSTORE} THEN Inter(sets)
    ELSE Union(sets)

\* The outcomes of running the command cmd on the database d: the new
\* database and the reply (a value, or the error reply of the server).
RedisExec(d, cmd) ==
    LET name == cmd[1]
        args == Tail(cmd)
        R(nd, out) == [db |-> nd, out |-> out]
    IN
    IF name \in {SADD, SREM} THEN
        IF Len(args) < 2 THEN {R(d, Arity)}
        ELSE LET key == args[1]
                 ms  == ToSet(Tail(args))
             IN IF name = SADD
                THEN {R([d EXCEPT ![key] = @ \cup ms],
                        Ok(IntV(Cardinality(ms \ d[key]))))}
                ELSE {R([d EXCEPT ![key] = @ \ ms],
                        Ok(IntV(Cardinality(ms \cap d[key]))))}
    ELSE IF name = SCARD THEN
        {R(d, Ok(IntV(Cardinality(d[args[1]]))))}
    ELSE IF name \in {SDIFF, SINTER, SUNION} THEN
        IF Len(args) < 1 THEN {R(d, Arity)}
        ELSE {R(d, Ok(ArrayV(SetToSeq(Combine(name, SetsOf(d, args))))))}
    ELSE IF name \in {SDIFFSTORE, SINTERSTORE, SUNIONSTORE} THEN
        IF Len(args) < 2 THEN {R(d, Arity)}
        ELSE LET res == Combine(name, SetsOf(d, Tail(args)))
             IN {R([d EXCEPT ![args[1]] = res], Ok(IntV(Cardinality(res))))}
    ELSE IF name = SISMEMBER THEN
        {R(d, Ok(IntV(IF args[2] \in d[args[1]] THEN 1 ELSE 0)))}
    ELSE IF name = SMEMBERS THEN
        {R(d, Ok(ArrayV(SetToSeq(d[args[1]]))))}
    ELSE IF name = SMOVE THEN
        IF args[3] \in d[args[1]]
        THEN {R([d EXCEPT ![args[1]] = @ \ {args[3]},
                          ![args[2]] = d[args[2]] \cup {args[3]}], Ok(IntV(1)))}
        ELSE {R(d, Ok(IntV(0)))}
    ELSE IF name \in {SPOP, SRANDMEMBER} THEN
        LET key  == args[1]
            left(S) == IF name = SPOP THEN [d EXCEPT ![key] = @ \ S] ELSE d
        IN IF Len(args) = 1
           THEN IF d[key] = {} THEN {R(d, Ok(NilV))}
                ELSE {R(left({m}), Ok(BulkV(m))) : m \in d[key]}
           ELSE LET n == TokenNat(args[2])
                    k == IF n < Cardinality(d[key]) THEN n ELSE Cardinality(d[key])
                IN {R(left(S), Ok(ArrayV(SetToSeq(S)))) :
                        S \in {T \in SUBSET d[key] : Cardinality(T) = k}}
    ELSE \* SSCAN key cursor [MATCH pattern] [COUNT count]
        LET elems == SetToSeq(d[args[1]])
            pos   == IF PosOf(args[2]) <= Len(elems) THEN PosOf(args[2]) ELSE 0
            rest  == Len(elems) - pos
            page(n) == SelectSeq(SubSeq(elems, pos + 1, pos + n),
                                 LAMBDA m : Glob(MatchOf(cmd), m))
            next(n) == IF pos + n >= Len(elems) THEN <<"0">> ELSE CursorOf(pos + n)
        IN {R(d, Ok(ScanV(next(n), page(n)))) :
                n \in IF rest = 0 THEN {0} ELSE 1..rest}

\* ------------------------------------------------------------------------
\* State of the client and of its collaborators
\* ------------------------------------------------------------------------
VARIABLES
    _pipeline,           \* the pipeline mode flag of the client
    _pipeline_commands,  \* the batch: the (command, callback) pairs queued
    futures,             \* the direct-mode calls, in submission order
    db,                  \* the sets held by the server
    flushed,             \* the batch of the last flush
    replies,             \* the raw replies of the last flush, by position
    results,             \* the results of the last flush, by position
    stats,               \* calls made, executor submissions, registrations
    probe,               \* the application of a pure function being examined
    scan                 \* the caller's loop over sscan

vars == <<_pipeline, _pipeline_commands, futures, db, flushed, replies,
          results, stats, probe, scan>>

Pending == [ok |-> FALSE, val |-> NilV, exc |-> "pending"]

Resolved(o) == o # Pending

\* The callbacks handed to _execute and _pipeline_add.  fn names the
\* function, n is the len(members) its closure holds.
NoCallback        == [fn |-> "None", n |-> 0]
Callback(fn, n)   == [fn |-> fn, n |-> n]

\* What the caller passed (kept beside the command vector built from it)
Call(op, n, cursor, pattern, count) ==
    [op |-> op, n |-> n, cursor |-> cursor, pattern |-> pattern, count |-> count]
Plain(op, n) == Call(op, n, PyZero, None, None)

\* the loop of a caller over sscan: the calls consumed, the cursor to send
\* next, the elements collected
Idle == [pc |-> "idle", key |-> K, count |-> None, calls |-> 0,
         cursor |-> PyZero, seen |-> {}]

NoProbe == [fn |-> "none", key |-> <<>>, cursor |-> PyZero, pattern |-> None,
            count |-> None, command |-> <<>>, value |-> NilV, out |-> NilV]

\* ------------------------------------------------------------------------
\* The normalizers
\* ------------------------------------------------------------------------
\* (variant of sadd._eval_response answering the comparison itself)
sadd_eval_response_bool(n, value) == BoolV(value.i = n)

\* sadd._eval_response, members being n long
sadd_eval_response(n, value) ==
    IF value.t \in {"int", "bool"} /\ value.i = n THEN BoolV(TRUE) ELSE value

\* srem._eval_response, members being n long
srem_eval_response(n, value) ==
    IF value.t \in {"int", "bool"} /\ value.i = n THEN BoolV(TRUE) ELSE value

\* (variant of sscan._format_response keeping the low 60 bits of the cursor)
sscan_format_response_trunc(value) ==
    LET c == int(value.s)
    IN  TupleV([c EXCEPT !.mag = Strip(SubSeq(c.mag, 1,
                                   IF Len(c.mag) < 4 THEN Len(c.mag) ELSE 4))],
               value.a)

\* sscan._format_response: (int(value[0]), value[1])
sscan_format_response(value) == TupleV(int(value.s), value.a)

\* the rule of _execute_and_eval_int_resp: 1 is true, anything else false
_eval_int_resp(value) == BoolV(value.t \in {"int", "bool"} /\ value.i = 1)

\* the callback cb applied to a raw reply
Normalize(cb, value) ==
    IF cb.fn = "sadd._eval_response" THEN sadd_eval_response(cb.n, value)
    ELSE IF cb.fn = "srem._eval_response" THEN srem_eval_response(cb.n, value)
    ELSE IF cb.fn = "sscan._format_response" THEN sscan_format_response(value)
    ELSE IF cb.fn = "_eval_int_resp" THEN _eval_int_resp(value)
    ELSE value

\* ------------------------------------------------------------------------
\* The collaborators: pipeline accumulator and executor
\* ------------------------------------------------------------------------
CanCall ==
    \/ stats.calls < MaxCalls
    \/ _pipeline /\ stats.execs = 0 /\ stats.calls < MaxBatch

\* self._pipeline_add(command, callback): queue the pair, return at once
_pipeline_add(call, command, callback) ==
    /\ _pipeline_commands' = Append(_pipeline_commands,
           [call |-> call, command |-> command, callback |-> callback])
    /\ stats' = [stats EXCEPT !.calls = @ + 1, !.adds = @ + 1]
    /\ UNCHANGED <<_pipeline, futures, db, flushed, replies, results, probe, scan>>

\* self._execute(command, callback): submit the command; the record holds
\* the executor's result (raw) and the result the caller holds (out).  With
\* no callback the caller holds the executor's result itself.
_execute(call, command, callback) ==
    /\ futures' = Append(futures,
           [call |-> call, command |-> command, callback |-> callback,
            raw |-> Pending, out |-> Pending, ran |-> FALSE,
            invoked |-> 0, sets |-> 0])
    /\ stats' = [stats EXCEPT !.calls = @ + 1, !.execs = @ + 1]
    /\ UNCHANGED <<_pipeline, _pipeline_commands, db, flushed, replies,
                   results, probe, scan>>

\* self._execute_and_eval_int_resp(command)
_execute_and_eval_int_resp(call, command) ==
    IF _pipeline
    THEN _pipeline_add(call, command, Callback("_eval_int_resp", 0))
    ELSE _execute(call, command, Callback("_eval_int_resp", 0))

\* The executor resolves submission i with one of the outcomes
ExecutorResolveWith(i, outcomes) ==
    /\ i \in 1..Len(futures)
    /\ ~Resolved(futures[i].raw)
    /\ \E o \in outcomes :
          /\ db' = o.db
          /\ futures' = [futures EXCEPT ![i].raw = o.out,
                ![i].out  = IF futures[i].callback = NoCallback THEN o.out ELSE @,
                ![i].sets = IF futures[i].callback = NoCallback THEN 1 ELSE @]
    /\ UNCHANGED <<_pipeline, _pipeline_commands, flushed, replies, results,
                   stats, probe, scan>>

\* The executor resolves submission i: with the reply of the server, which
\* runs the command on resolution, or with a transport failure.
ExecutorResolve(i) ==
    /\ i \in 1..Len(futures)
    /\ ExecutorResolveWith(i,
           {[db |-> db, out |-> Fail(e)] : e \in TransportErrors}
               \cup RedisExec(db, futures[i].command))

\* The executor resolves submission i with the reply of the server
ExecutorReply(i) ==
    /\ i \in 1..Len(futures)
    /\ ExecutorResolveWith(i, RedisExec(db, futures[i].command))

\* The continuation of a direct call runs once its executor result is there
CanRespond(i, fn) ==
    /\ i \in 1..Len(futures)
    /\ futures[i].callback.fn = fn
    /\ Resolved(futures[i].raw)
    /\ ~futures[i].ran

\* (variant of on_response failing the future with an error of its own)
Respond_replace(i, normalized) ==
    /\ futures' = [futures EXCEPT
          ![i].ran = TRUE,
          ![i].out = IF ~futures[i].raw.ok THEN Fail(RedisError)
                     ELSE Ok(normalized),
          ![i].invoked = IF ~futures[i].raw.ok THEN @ ELSE @ + 1,
          ![i].sets = @ + 1]
    /\ UNCHANGED <<_pipeline, _pipeline_commands, db, flushed, replies,
                   results, stats, probe, scan>>

\* on_response: forward the exception, or set the normalized result
\* a continuation that forgets the caller's future when the executor failed
Respond_drop(i, normalized) ==
    /\ futures' = [futures EXCEPT
          ![i].ran = TRUE,
          ![i].out = IF ~futures[i].raw.ok THEN @ ELSE Ok(normalized),
          ![i].invoked = IF ~futures[i].raw.ok THEN @ ELSE @ + 1,
          ![i].sets = IF ~futures[i].raw.ok THEN @ ELSE @ + 1]
    /\ UNCHANGED <<_pipeline, _pipeline_commands, db, flushed, replies,
                   results, stats, probe, scan>>

\* a continuation that submits the command again when the executor failed
Respond_retry(i, normalized) ==
    /\ futures' = [futures EXCEPT
          ![i].ran = futures[i].raw.ok,
          ![i].raw = IF ~futures[i].raw.ok THEN Pending ELSE @,
          ![i].out = IF ~futures[i].raw.ok THEN @ ELSE Ok(normalized),
          ![i].invoked = IF ~futures[i].raw.ok THEN @ ELSE @ + 1,
          ![i].sets = IF ~futures[i].raw.ok THEN @ ELSE @ + 1]
    /\ stats' = [stats EXCEPT
          !.execs = IF ~futures[i].raw.ok THEN @ + 1 ELSE @]
    /\ UNCHANGED <<_pipeline, _pipeline_commands, db, flushed, replies,
                   results, probe, scan>>

Respond(i, normalized) ==
    /\ futures' = [futures EXCEPT
          ![i].ran = TRUE,
          ![i].out = IF ~futures[i].raw.ok THEN Fail(futures[i].raw.exc)
                     ELSE Ok(normalized),
          ![i].invoked = IF ~futures[i].raw.ok THEN @ ELSE @ + 1,
          ![i].sets = @ + 1]
    /\ UNCHANGED <<_pipeline, _pipeline_commands, db, flushed, replies,
                   results, stats, probe, scan>>

\* a continuation of sadd that compares with the member count of the call
\* made last
sadd_on_response_latest(i) ==
    /\ CanRespond(i, "sadd._eval_response")
    /\ Respond(i, sadd_eval_response(futures[Len(futures)].callback.n,
                                     futures[i].raw.val))

sadd_on_response(i) ==
    /\ CanRespond(i, "sadd._eval_response")
    /\ Respond(i, sadd_eval_response(futures[i].callback.n, futures[i].raw.val))

srem_on_response(i) ==
    /\ CanRespond(i, "srem._eval_response")
    /\ Respond(i, srem_eval_response(futures[i].callback.n, futures[i].raw.val))

sscan_on_response(i) ==
    /\ CanRespond(i, "sscan._format_response")
    /\ Respond(i, sscan_format_response(futures[i].raw.val))

eval_int_on_response(i) ==
    /\ CanRespond(i, "_eval_int_resp")
    /\ Respond(i, _eval_int_resp(futures[i].raw.val))

\* The pipeline collaborator switches the client to pipeline mode ...
pipeline_start ==
    /\ ~_pipeline
    /\ _pipeline' = TRUE
    /\ _pipeline_commands' = <<>>
    /\ UNCHANGED <<futures, db, flushed, replies, results, stats, probe, scan>>

RECURSIVE RunBatch(_, _)
\* the server runs the batch in order: the databases and reply lists possible
RunBatch(d, batch) ==
    IF batch = <<>> THEN {[db |-> d, replies |-> <<>>]}
    ELSE UNION {{[db |-> rest.db, replies |-> <<first.out>> \o rest.replies] :
                    rest \in RunBatch(first.db, Tail(batch))} :
                first \in RedisExec(d, Head(batch).command)}

\* the Nth callback applied to the Nth reply; a failed reply stays a failure
Transform(batch, raws) ==
    [i \in 1..Len(batch) |->
        IF raws[i].ok THEN Ok(Normalize(batch[i].callback, raws[i].val))
        ELSE raws[i]]

\* ... and flushes the batch, which ends pipeline mode
pipeline_execute ==
    /\ _pipeline
    /\ \E run \in RunBatch(db, _pipeline_commands) :
          /\ db' = run.db
          /\ replies' = run.replies
          /\ results' = Transform(_pipeline_commands, run.replies)
    /\ flushed' = _pipeline_commands
    /\ _pipeline_commands' = <<>>
    /\ _pipeline' = FALSE
    /\ UNCHANGED <<futures, stats, probe, scan>>

\* ------------------------------------------------------------------------
\* Command builders of the operations with optional arguments
\* ------------------------------------------------------------------------
spop_command(key, count) ==
    <<SPOP, key>> \o (IF TruthyInt(count) THEN <<ascii(count.int)>> ELSE <<>>)

srandmember_command(key, count) ==
    <<SRANDMEMBER, key>> \o (IF TruthyInt(count) THEN <<ascii(count.int)>> ELSE <<>>)

\* a builder that sends the initial cursor whatever cursor it is given
sscan_command_cursor0(key, cursor, pattern, count) ==
    <<SSCAN, key, <<"0">>>>
        \o (IF TruthyBytes(pattern) THEN <<MATCH, pattern.bytes>> ELSE <<>>)
        \o (IF TruthyInt(count) THEN <<COUNT, ascii(count.int)>> ELSE <<>>)

\* a builder that writes a cursor of 2^60 and more the way Python 2 writes
\* a long, with a trailing L
sscan_command_long(key, cursor, pattern, count) ==
    <<SSCAN, key,
      ascii(cursor) \o (IF Len(cursor.mag) > 4 THEN <<"L">> ELSE <<>>)>>
        \o (IF TruthyBytes(pattern) THEN <<MATCH, pattern.bytes>> ELSE <<>>)
        \o (IF TruthyInt(count) THEN <<COUNT, ascii(count.int)>> ELSE <<>>)

sscan_command(key, cursor, pattern, count) ==
    <<SSCAN, key, ascii(cursor)>>
        \o (IF TruthyBytes(pattern) THEN <<MATCH, pattern.bytes>> ELSE <<>>)
        \o (IF TruthyInt(count) THEN <<COUNT, ascii(count.int)>> ELSE <<>>)

\* ------------------------------------------------------------------------
\* The set operations of SetsMixin
\* ------------------------------------------------------------------------
\* dispatch of the operations that attach no callback
PassThrough(call, command) ==
    IF _pipeline THEN _pipeline_add(call, command, NoCallback)
    ELSE _execute(call, command, NoCallback)

\* an sadd that rejects an empty member list itself: the call fails with a
\* local error and nothing is handed to a collaborator
sadd_checked(key, members) ==
    LET command  == <<SADD, key>> \o members
        callback == Callback("sadd._eval_response", Len(members))
        call     == Plain("sadd", Len(members))
    IN /\ CanCall
       /\ IF members = <<>>
          THEN /\ futures' = Append(futures,
                      [call |-> call, command |-> command,
                       callback |-> callback, raw |-> Fail("ValueError"),
                       out |-> Fail("ValueError"), ran |-> TRUE,
                       invoked |-> 0, sets |-> 1])
               /\ stats' = [stats EXCEPT !.calls = @ + 1]
               /\ UNCHANGED <<_pipeline, _pipeline_commands, db, flushed,
                              replies, results, probe, scan>>
          ELSE IF _pipeline THEN _pipeline_add(call, command, callback)
          ELSE _execute(call, command, callback)

sadd(key, members) ==
    LET command  == <<SADD, key>> \o members
        callback == Callback("sadd._eval_response", Len(members))
        call     == Plain("sadd", Len(members))
    IN /\ CanCall
       /\ IF _pipeline THEN _pipeline_add(call, command, callback)
          ELSE _execute(call, command, callback)

\* a scard that keeps registering once the accumulator has been used
scard_sticky(key) ==
    /\ CanCall
    /\ IF _pipeline \/ stats.adds > 0
       THEN _pipeline_add(Plain("scard", 0), <<SCARD, key>>, NoCallback)
       ELSE _execute(Plain("scard", 0), <<SCARD, key>>, NoCallback)

scard(key) ==
    CanCall /\ PassThrough(Plain("scard", 0), <<SCARD, key>>)

sdiff(keys) ==
    CanCall /\ PassThrough(Plain("sdiff", Len(keys)), <<SDIFF>> \o keys)

sdiffstore(destination, keys) ==
    CanCall /\ PassThrough(Plain("sdiffstore", Len(keys)),
                           <<SDIFFSTORE, destination>> \o keys)

sinter(keys) ==
    CanCall /\ PassThrough(Plain("sinter", Len(keys)), <<SINTER>> \o keys)

sinterstore(destination, keys) ==
    CanCall /\ PassThrough(Plain("sinterstore", Len(keys)),
                           <<SINTERSTORE, destination>> \o keys)

sismember(key, member) ==
    CanCall /\ PassThrough(Plain("sismember", 0), <<SISMEMBER, key, member>>)

smembers(key) ==
    CanCall /\ PassThrough(Plain("smembers", 0), <<SMEMBERS, key>>)

\* (variant of smove submitting without looking at the mode)
smove_unchecked(source, destination, member) ==
    /\ CanCall
    /\ _execute(Plain("smove", 0), <<SMOVE, source, destination, member>>,
                Callback("_eval_int_resp", 0))

\* (variant of smove dispatching like the operations without a callback)
smove_passthrough(source, destination, member) ==
    CanCall /\ PassThrough(Plain("smove", 0),
                           <<SMOVE, source, destination, member>>)

smove(source, destination, member) ==
    /\ CanCall
    /\ _execute_and_eval_int_resp(Plain("smove", 0),
                                  <<SMOVE, source, destination, member>>)

spop(key, count) ==
    CanCall /\ PassThrough(Call("spop", 0, PyZero, None, count),
                           spop_command(key, count))

srandmember(key, count) ==
    CanCall /\ PassThrough(Call("srandmember", 0, PyZero, None, count),
                           srandmember_command(key, count))

\* an srem that registers its command without its normalizer
srem_piped_raw(key, members) ==
    LET command  == <<SREM, key>> \o members
        callback == Callback("srem._eval_response", Len(members))
        call     == Plain("srem", Len(members))
    IN /\ CanCall
       /\ IF _pipeline THEN _pipeline_add(call, command, NoCallback)
          ELSE _execute(call, command, callback)

srem(key, members) ==
    LET command  == <<SREM, key>> \o members
        callback == Callback("srem._eval_response", Len(members))
        call     == Plain("srem", Len(members))
    IN /\ CanCall
       /\ IF _pipeline THEN _pipeline_add(call, command, callback)
          ELSE _execute(call, command, callback)

\* (variant of sscan queueing its command without its callback)
sscan_no_callback(key, cursor, pattern, count) ==
    LET command  == sscan_command(key, cursor, pattern, count)
        callback == Callback("sscan._format_response", 0)
        call     == Call("sscan", 0, cursor, pattern, count)
    IN /\ CanCall
       /\ IF _pipeline THEN _pipeline_add(call, command, NoCallback)
          ELSE _execute(call, command, callback)

\* an sscan whose direct branch hands the raw reply to the caller
sscan_raw_direct(key, cursor, pattern, count) ==
    LET command  == sscan_command(key, cursor, pattern, count)
        callback == Callback("sscan._format_response", 0)
        call     == Call("sscan", 0, cursor, pattern, count)
    IN /\ CanCall
       /\ IF _pipeline THEN _pipeline_add(call, command, callback)
          ELSE _execute(call, command, NoCallback)

sscan(key, cursor, pattern, count) ==
    LET command  == sscan_command(key, cursor, pattern, count)
        callback == Callback("sscan._format_response", 0)
        call     == Call("sscan", 0, cursor, pattern, count)
    IN /\ CanCall
       /\ IF _pipeline THEN _pipeline_add(call, command, callback)
          ELSE _execute(call, command, callback)

\* a sunion that puts its entry in front of the queued ones
sunion_front(keys) ==
    /\ CanCall
    /\ IF _pipeline
       THEN /\ _pipeline_commands' =
                  <<[call |-> Plain("sunion", Len(keys)),
                     command |-> <<SUNION>> \o keys,
                     callback |-> NoCallback]>> \o _pipeline_commands
            /\ stats' = [stats EXCEPT !.calls = @ + 1, !.adds = @ + 1]
            /\ UNCHANGED <<_pipeline, futures, db, flushed, replies, results,
                           probe, scan>>
       ELSE _execute(Plain("sunion", Len(keys)), <<SUNION>> \o keys, NoCallback)

sunion(keys) ==
    CanCall /\ PassThrough(Plain("sunion", Len(keys)), <<SUNION>> \o keys)

sunionstore(destination, keys) ==
    CanCall /\ PassThrough(Plain("sunionstore", Len(keys)),
                           <<SUNIONSTORE, destination>> \o keys)

\* ------------------------------------------------------------------------
\* Inputs of the calls, and the specification
\* ------------------------------------------------------------------------
MemberLists == {<<>>, <<A>>, <<A, B>>}
KeyLists    == {<<>>, <<K, J>>}
StoreLists  == {<<>>, <<K>>}
Counts      == {None, SomeInt(0), SomeInt(2)}
BigCursor   == int(CursorTable[1])
ScanArgs    == {<<PyZero, None, None>>,
                <<BigCursor, None, None>>,
                <<PyZero, SomeBytes(<<"a", "*">>), SomeInt(2)>>}

Init ==
    /\ _pipeline = FALSE
    /\ _pipeline_commands = <<>>
    /\ futures = <<>>
    /\ db = [k \in Keys |-> {}]
    /\ flushed = <<>>
    /\ replies = <<>>
    /\ results = <<>>
    /\ stats = [calls |-> 0, execs |-> 0, adds |-> 0]
    /\ probe = NoProbe
    /\ scan = Idle

Next ==
    \/ \E members \in MemberLists : sadd(K, members)
    \/ scard(K)
    \/ \E keys \in KeyLists : sdiff(keys)
    \/ \E keys \in StoreLists : sdiffstore(J, keys)
    \/ \E keys \in KeyLists : sinter(keys)
    \/ \E keys \in StoreLists : sinterstore(J, keys)
    \/ sismember(K, A)
    \/ smembers(K)
    \/ smove(K, J, A)
    \/ \E count \in Counts : spop(K, count)
    \/ \E count \in Counts : srandmember(K, count)
    \/ \E members \in MemberLists : srem(K, members)
    \/ \E args \in ScanArgs : sscan(K, args[1], args[2], args[3])
    \/ \E keys \in KeyLists : sunion(keys)
    \/ \E keys \in StoreLists : sunionstore(J, keys)
    \/ \E i \in 1..Len(futures) : ExecutorResolve(i)
    \/ \E i \in 1..Len(futures) : sadd_on_response(i)
    \/ \E i \in 1..Len(futures) : srem_on_response(i)
    \/ \E i \in 1..Len(futures) : sscan_on_response(i)
    \/ \E i \in 1..Len(futures) : eval_int_on_response(i)
    \/ pipeline_start
    \/ pipeline_execute

Spec == Init /\ [][Next]_vars

\* ------------------------------------------------------------------------
\* The pure functions on their own: inputs drawn from bounded sets
\* ------------------------------------------------------------------------
FnCursors  == {[neg |-> FALSE, mag |-> Numerals[i].mag] : i \in 1..Len(Numerals)}
FnPatterns == {None, SomeBytes(<<>>), SomeBytes(<<"a", "*">>), SomeBytes(<<"*">>)}
FnCounts   == {None, SomeInt(0), SomeInt(7), SomeInt(32768)}
FnMembers  == {<<>>, <<A>>, <<A, B>>, <<B, A>>}
FnReplies  == {ScanV(Numerals[i].str, ms) : i \in 1..Len(Numerals), ms \in FnMembers}

\* the command vector sscan builds from its arguments
apply_sscan_command(key, cursor, pattern, count) ==
    /\ probe = NoProbe
    /\ probe' = [NoProbe EXCEPT !.fn = "sscan_command", !.key = key,
                    !.cursor = cursor, !.pattern = pattern, !.count = count,
                    !.command = sscan_command(key, cursor, pattern, count)]
    /\ UNCHANGED <<_pipeline, _pipeline_commands, futures, db, flushed,
                   replies, results, stats, scan>>

\* the result sscan's _format_response gives for a reply
apply_format_response(value) ==
    /\ probe = NoProbe
    /\ probe' = [NoProbe EXCEPT !.fn = "sscan._format_response",
                    !.value = value, !.out = sscan_format_response(value)]
    /\ UNCHANGED <<_pipeline, _pipeline_commands, futures, db, flushed,
                   replies, results, stats, scan>>

\* the vector of the next sscan call when the caller passes on the cursor
\* of the result _format_response gave
apply_next_sscan(key) ==
    /\ probe.fn = "sscan._format_response"
    /\ probe' = [probe EXCEPT !.fn = "next sscan", !.key = key,
                    !.cursor = probe.out.c,
                    !.command = sscan_command(key, probe.out.c, None, None)]
    /\ UNCHANGED <<_pipeline, _pipeline_commands, futures, db, flushed,
                   replies, results, stats, scan>>

NextFn ==
    \/ \E key \in Keys, cursor \in FnCursors, pattern \in FnPatterns,
          count \in FnCounts : apply_sscan_command(key, cursor, pattern, count)
    \/ \E value \in FnReplies : apply_format_response(value)
    \/ \E key \in Keys : apply_next_sscan(key)

SpecFn == Init /\ [][NextFn]_vars

\* The event loop runs the continuation of every executor result that is
\* there (ioloop callbacks are run, none is starved)
SpecLive ==
    /\ Spec
    /\ WF_vars(\E i \in 1..MaxCalls : sadd_on_response(i))
    /\ WF_vars(\E i \in 1..MaxCalls : srem_on_response(i))
    /\ WF_vars(\E i \in 1..MaxCalls : sscan_on_response(i))

\* ------------------------------------------------------------------------
\* A caller iterating a set with sscan: it starts at cursor 0 and sends the
\* cursor of each result back until the cursor of a result is 0
\* ------------------------------------------------------------------------
ScanMembers == {A, B, C}
ScanCounts  == {None, SomeInt(2)}

InitScan ==
    /\ _pipeline = FALSE
    /\ _pipeline_commands = <<>>
    /\ futures = <<>>
    /\ flushed = <<>>
    /\ replies = <<>>
    /\ results = <<>>
    /\ stats = [calls |-> 0, execs |-> 0, adds |-> 0]
    /\ probe = NoProbe
    /\ \E key \in Keys, count \in ScanCounts :
          /\ scan = [Idle EXCEPT !.pc = "call", !.key = key, !.count = count]
          /\ \E S \in SUBSET ScanMembers :
                /\ Cardinality(S) <= MaxCalls
                /\ db = [k \in Keys |-> IF k = key THEN S ELSE {}]

\* the caller asks for the next page
scan_call ==
    /\ scan.pc = "call"
    /\ Len(futures) = scan.calls
    /\ sscan(scan.key, scan.cursor, None, scan.count)

\* the caller takes the page and the cursor of the result
scan_next ==
    /\ scan.pc = "call"
    /\ Len(futures) = scan.calls + 1
    /\ LET out == futures[Len(futures)].out
       IN /\ Resolved(out)
          /\ out.ok
          /\ scan' = [scan EXCEPT
                !.calls  = @ + 1,
                !.cursor = out.val.c,
                !.seen   = @ \cup ToSet(out.val.a),
                !.pc     = IF out.val.c = PyZero THEN "done" ELSE "call"]
    /\ UNCHANGED <<_pipeline, _pipeline_commands, futures, db, flushed,
                   replies, results, stats, probe>>

NextScan ==
    \/ scan_call
    \/ \E i \in 1..MaxCalls : ExecutorReply(i)
    \/ \E i \in 1..MaxCalls : sscan_on_response(i)
    \/ scan_next

\* the caller, the executor and the continuations keep running
SpecScan == InitScan /\ [][NextScan]_vars /\ WF_vars(NextScan)

\* ------------------------------------------------------------------------
\* What the callers have been delivered
\* ------------------------------------------------------------------------
Delivery(call, command, raw, out) ==
    [call |-> call, command |-> command, raw |-> raw, out |-> out]

\* the direct calls whose result is there
Direct ==
    {Delivery(futures[i].call, futures[i].command, futures[i].raw, futures[i].out) :
        i \in {j \in 1..Len(futures) : Resolved(futures[j].out)}}

\* the positions of the flushed batch
Piped ==
    {Delivery(flushed[i].call, flushed[i].command, replies[i], results[i]) :
        i \in 1..Len(flushed)}

Delivered == Direct \cup Piped

\* the decimal form of a number of Numerals, and the number a decimal form
\* of Numerals denotes
DecimalOf(n) ==
    Numerals[CHOOSE i \in 1..Len(Numerals) : Numerals[i].mag = n.mag].str
NumberOf(str) ==
    [neg |-> FALSE,
     mag |-> Numerals[CHOOSE i \in 1..Len(Numerals) : Numerals[i].str = str].mag]

IsReply(d, n) == d.raw.ok /\ d.raw.val = IntV(n)

\* ------------------------------------------------------------------------
\* C1
\* ------------------------------------------------------------------------
\* C1: sadd and srem called with N >= 1 members, in direct and in pipeline
\* mode: a reply equal to N is delivered as the boolean true, a reply
\* M < N as the integer M itself.
C1_AllOrCount ==
    \A d \in Delivered :
        (d.call.op \in {"sadd", "srem"} /\ d.call.n >= 1 /\ d.raw.ok
            /\ d.raw.val.t = "int")
        => /\ d.raw.val.i = d.call.n => d.out = Ok(BoolV(TRUE))
           /\ d.raw.val.i < d.call.n => d.out = Ok(IntV(d.raw.val.i))

\* a direct sadd of one member answered 1 and delivered true, and a queued
\* sadd of two members answered 1 and delivered 1
C1_Witness ==
    /\ \E d \in Direct : d.call.op = "sadd" /\ d.call.n = 1 /\ IsReply(d, 1)
                         /\ d.out = Ok(BoolV(TRUE))
    /\ \E d \in Piped : d.call.op = "sadd" /\ d.call.n = 2 /\ IsReply(d, 1)
                        /\ d.out = Ok(IntV(1))

\* ------------------------------------------------------------------------
\* C2
\* ------------------------------------------------------------------------
Normalizing == {"sadd._eval_response", "srem._eval_response",
                "sscan._format_response"}

\* C2: in direct mode, when the executor's result of a sadd, srem or sscan
\* fails with an error, the normalizer is not invoked and the caller's
\* future is never given a value: it fails with that same error.
C2_FailureForwarded ==
    \A i \in 1..Len(futures) :
        (futures[i].callback.fn \in Normalizing /\ Resolved(futures[i].raw)
            /\ ~futures[i].raw.ok)
        => /\ futures[i].invoked = 0
           /\ futures[i].out = IF futures[i].ran THEN Fail(futures[i].raw.exc)
                               ELSE Pending

\* an sscan whose executor result failed with a timeout and whose future
\* failed with the timeout
C2_Witness ==
    \E i \in 1..Len(futures) :
        /\ futures[i].callback.fn = "sscan._format_response"
        /\ futures[i].raw = Fail("TimeoutError")
        /\ futures[i].ran
        /\ futures[i].out = Fail("TimeoutError")

\* ------------------------------------------------------------------------
\* C3
\* ------------------------------------------------------------------------
NameOf ==
    [sadd |-> SADD, scard |-> SCARD, sdiff |-> SDIFF, sdiffstore |-> SDIFFSTORE,
     sinter |-> SINTER, sinterstore |-> SINTERSTORE, sismember |-> SISMEMBER,
     smembers |-> SMEMBERS, smove |-> SMOVE, spop |-> SPOP,
     srandmember |-> SRANDMEMBER, srem |-> SREM, sscan |-> SSCAN,
     sunion |-> SUNION, sunionstore |-> SUNIONSTORE]

\* C3: a call of a set operation made while the pipeline flag is set
\* queues its command vector with the pipeline accumulator and submits
\* nothing to the executor.
C3_PipelineShortCircuits ==
    [][(_pipeline /\ stats.calls' = stats.calls + 1)
        => /\ futures' = futures
           /\ stats.execs' = stats.execs
           /\ Len(_pipeline_commands') = Len(_pipeline_commands) + 1
           /\ SubSeq(_pipeline_commands', 1, Len(_pipeline_commands))
                = _pipeline_commands
           /\ LET e == _pipeline_commands'[Len(_pipeline_commands')]
              IN  e.command[1] = NameOf[e.call.op]]_vars

\* a batch holding an smove, an sscan and an spop, nothing submitted
C3_Witness ==
    /\ _pipeline
    /\ Len(_pipeline_commands) = 3
    /\ _pipeline_commands[1].command[1] = SMOVE
    /\ _pipeline_commands[2].command[1] = SSCAN
    /\ _pipeline_commands[3].command[1] = SPOP
    /\ futures = <<>>
    /\ stats.execs = 0

\* ------------------------------------------------------------------------
\* C4
\* ------------------------------------------------------------------------
FreshBatch ==
    /\ stats = [calls |-> 3, execs |-> 0, adds |-> 3]
    /\ Len(flushed) = 3
    /\ flushed[1].command = <<SADD, K, A>>
    /\ flushed[2].command = <<SCARD, K>>
    /\ flushed[3].command = <<SISMEMBER, K, A>>

\* C4: the batch sadd(k, a), scard(k), sismember(k, a), flushed against a
\* key that does not exist yet, yields [true, 1, true], the first and the
\* third being booleans.
C4_BatchResults ==
    FreshBatch => results = <<Ok(BoolV(TRUE)), Ok(IntV(1)), Ok(BoolV(TRUE))>>

\* ------------------------------------------------------------------------
\* C5
\* ------------------------------------------------------------------------
\* the result the operation of a call gives for a reply
Expected(call, v) ==
    IF call.op \in {"sadd", "srem"}
    THEN IF v.t = "int" /\ v.i = call.n THEN BoolV(TRUE) ELSE v
    ELSE IF call.op = "sscan" THEN TupleV(NumberOf(v.s), v.a)
    ELSE IF call.op = "smove" THEN BoolV(v = IntV(1))
    ELSE v

\* C5: after a flush the Nth result is the normalizer of the Nth call
\* applied to the Nth raw reply.
C5_Positional ==
    /\ Len(replies) = Len(flushed)
    /\ Len(results) = Len(flushed)
    /\ \A i \in 1..Len(flushed) :
          results[i] = IF replies[i].ok
                       THEN Ok(Expected(flushed[i].call, replies[i].val))
                       ELSE replies[i]

\* a flushed batch of an sscan, an sadd and an scard, each with its result
C5_Witness ==
    /\ Len(flushed) = 3
    /\ flushed[1].call.op = "sscan" /\ results[1].val.t = "tuple"
    /\ flushed[2].call.op = "sadd" /\ results[2] = Ok(BoolV(TRUE))
    /\ flushed[3].call.op = "scard" /\ results[3] = Ok(IntV(2))

\* ------------------------------------------------------------------------
\* C6
\* ------------------------------------------------------------------------
\* C6: smove delivers the reply 1 as the boolean true and the reply 0 as
\* the boolean false.
C6_SmoveBoolean ==
    \A d \in Delivered :
        d.call.op = "smove"
        => /\ IsReply(d, 1) => d.out = Ok(BoolV(TRUE))
           /\ IsReply(d, 0) => d.out = Ok(BoolV(FALSE))

\* a batch in which one smove was answered 1 and another 0
C6_Witness ==
    /\ \E d \in Piped : d.call.op = "smove" /\ IsReply(d, 1)
                        /\ d.out = Ok(BoolV(TRUE))
    /\ \E d \in Piped : d.call.op = "smove" /\ IsReply(d, 0)
                        /\ d.out = Ok(BoolV(FALSE))

\* ------------------------------------------------------------------------
\* C7
\* ------------------------------------------------------------------------
\* C7: sismember delivers the boolean false for the reply 0 and the boolean
\* true for the reply 1, in both modes; scard delivers the integer of the
\* server unchanged.
C7_SismemberBoolean ==
    \A d \in Delivered :
        /\ d.call.op = "sismember"
            => /\ IsReply(d, 0) => d.out = Ok(BoolV(FALSE))
               /\ IsReply(d, 1) => d.out = Ok(BoolV(TRUE))
        /\ d.call.op = "scard" => d.out = d.raw

\* ------------------------------------------------------------------------
\* C8
\* ------------------------------------------------------------------------
\* C8: spop and srandmember deliver a single value to a call without count
\* and a sequence to a call with a count, whatever the count, and the
\* command vector of a call with a count holds the decimal form of the count.
C8_ShapeFollowsCount ==
    \A d \in Delivered :
        (d.call.op \in {"spop", "srandmember"} /\ d.raw.ok)
        => IF d.call.count.some
           THEN /\ d.out.val.t = "array"
                /\ d.command = <<NameOf[d.call.op], K, DecimalOf(d.call.count.int)>>
           ELSE /\ d.out.val.t \in {"bulk", "nil"}
                /\ d.command = <<NameOf[d.call.op], K>>

\* ------------------------------------------------------------------------
\* C9
\* ------------------------------------------------------------------------
\* C9: the command vector of sscan is [SSCAN, key, decimal(cursor)], then
\* [MATCH, pattern] exactly when a non-empty pattern is supplied, then
\* [COUNT, decimal(count)] exactly when a count is supplied.
C9_ScanVector ==
    probe.fn = "sscan_command"
    => probe.command =
          <<SSCAN, probe.key, DecimalOf(probe.cursor)>>
          \o (IF probe.pattern.some /\ probe.pattern.bytes # <<>>
              THEN <<MATCH, probe.pattern.bytes>> ELSE <<>>)
          \o (IF probe.count.some
              THEN <<COUNT, DecimalOf(probe.count.int)>> ELSE <<>>)

\* ------------------------------------------------------------------------
\* C10
\* ------------------------------------------------------------------------
\* C10: the sscan reply [cursor-string, members] is normalized to the pair
\* of the integer the cursor-string denotes, up to 2^64-1, and the members
\* as they came.
C10_CursorParsed ==
    probe.fn = "sscan._format_response"
    => probe.out = TupleV(NumberOf(probe.value.s), probe.value.a)

\* the reply with the cursor 2^64-1 and two members, normalized
C10_Witness ==
    /\ probe.fn = "sscan._format_response"
    /\ probe.value = ScanV(Numerals[7].str, <<B, A>>)
    /\ probe.out.c.mag = <<32767, 32767, 32767, 32767, 15>>
    /\ probe.out.a = <<B, A>>


\* C11: a caller that scans a set nobody changes, starting at cursor 0 and
\* sending each returned cursor back, eventually gets cursor 0 and has then
\* collected exactly the elements of the set.
C11_ScanCompletes ==
    /\ <>(scan.pc = "done")
    /\ [](scan.pc = "done" => scan.seen = db[scan.key])

\* a scan of two elements that took two calls, the second with the cursor
\* of the first result
C11_Witness ==
    /\ scan.pc = "done"
    /\ scan.calls = 2
    /\ Cardinality(scan.seen) = 2
    /\ futures[2].call.cursor # PyZero

\* C12: each call is dispatched by the value the pipeline flag has at the
\* moment of the call, whatever the mode of the client was before: with the
\* flag set the accumulator gets the call and the executor does not, with
\* the flag clear the executor gets it and the accumulator does not.
C12_DispatchByFlag ==
    [][stats.calls' = stats.calls + 1
        => IF _pipeline
           THEN /\ stats.adds' = stats.adds + 1
                /\ stats.execs' = stats.execs
                /\ Len(futures') = Len(futures)
           ELSE /\ stats.execs' = stats.execs + 1
                /\ stats.adds' = stats.adds
                /\ Len(futures') = Len(futures) + 1
                /\ Len(_pipeline_commands') = Len(_pipeline_commands)]_vars

\* a call registered in pipeline mode, the batch flushed, then a call
\* submitted in direct mode
C12_Witness ==
    /\ Len(flushed) = 1
    /\ ~_pipeline
    /\ Len(futures) = 1
    /\ stats.adds = 1
    /\ stats.execs = 1

\* the direct call i is one of sadd, srem, sscan and the executor has
\* resolved it
ExecutorDone(i) ==
    /\ i \in 1..Len(futures)
    /\ futures[i].callback.fn \in Normalizing
    /\ Resolved(futures[i].raw)

\* C13: the future of a direct sadd, srem or sscan is resolved exactly
\* once: after the executor has resolved, with a reply or with a failure,
\* the future eventually holds a success or a failure; it is never set a
\* second time and what it holds never changes.
C13_ResolvedOnce ==
    /\ \A i \in 1..MaxCalls :
          ExecutorDone(i) ~> (ExecutorDone(i) /\ Resolved(futures[i].out))
    /\ [](\A i \in 1..Len(futures) :
             /\ futures[i].sets <= 1
             /\ Resolved(futures[i].out) <=> futures[i].sets = 1)
    /\ [][\A i \in 1..Len(futures) :
             Resolved(futures[i].out) => futures'[i].out = futures[i].out]_vars

\* two futures resolved, one with the executor's failure and one with a
\* normalized value
C13_Witness ==
    /\ Len(futures) = 2
    /\ \A i \in 1..2 : ExecutorDone(i) /\ Resolved(futures[i].out)
    /\ ~futures[1].out.ok
    /\ futures[2].out.ok

\* C14: for every operation, argument list and raw reply, the value the
\* caller gets in direct mode is the value at the call's position of the
\* flushed results when the same call is made in pipeline mode.
C14_SameRuleBothModes ==
    \A d \in Direct : \A p \in Piped :
        (d.call = p.call /\ d.command = p.command /\ d.raw = p.raw)
            => d.out = p.out

\* the same sscan call made in both modes with the same reply
C14_Witness ==
    \E d \in Direct : \E p \in Piped :
        /\ d.call = p.call /\ d.command = p.command /\ d.raw = p.raw
        /\ d.call.op = "sscan"
        /\ d.raw.ok

\* C15: when the reply at a position of a flushed batch is a failure, only
\* the results at failed positions fail; every position with a successful
\* reply still yields the value of its own normalizer.
C15_FailureIsLocal ==
    (\E j \in 1..Len(flushed) : ~replies[j].ok)
        => \A i \in 1..Len(flushed) :
              /\ results[i].ok <=> replies[i].ok
              /\ replies[i].ok
                    => results[i].val = Expected(flushed[i].call, replies[i].val)
              /\ ~replies[i].ok => results[i].exc = replies[i].exc

\* a batch whose first reply is the server's arity error, followed by an
\* sadd and an srem that are both normalized to true
C15_Witness ==
    /\ Len(flushed) = 3
    /\ ~replies[1].ok /\ ~results[1].ok
    /\ flushed[2].call.op = "sadd" /\ results[2] = Ok(BoolV(TRUE))
    /\ flushed[3].call.op = "srem" /\ results[3] = Ok(BoolV(TRUE))

\* the operations taking a variable number of members or keys, and those of
\* them with a fixed leading key
Variadic == {"sadd", "srem", "sdiff", "sinter", "sunion",
             "sdiffstore", "sinterstore", "sunionstore"}
Keyed    == {"sadd", "srem", "sdiffstore", "sinterstore", "sunionstore"}

ZeroArg(call) == call.op \in Variadic /\ call.n = 0

\* every call handed to a collaborator: submitted, queued or flushed
Handed ==
    {[call |-> futures[i].call, command |-> futures[i].command] :
        i \in 1..Len(futures)}
    \cup {[call |-> _pipeline_commands[i].call,
           command |-> _pipeline_commands[i].command] :
             i \in 1..Len(_pipeline_commands)}
    \cup {[call |-> flushed[i].call, command |-> flushed[i].command] :
             i \in 1..Len(flushed)}

\* C16: a variadic operation called with no member or key raises nothing
\* locally: its vector is the command name and the fixed leading key only,
\* it is dispatched like any other call, and what the caller gets is the
\* failure the collaborator reports, the server's arity error included.
C16_ZeroVariadicForwarded ==
    /\ \A e \in Handed :
          ZeroArg(e.call)
            => /\ e.command[1] = NameOf[e.call.op]
               /\ Len(e.command) = IF e.call.op \in Keyed THEN 2 ELSE 1
               /\ e.call.op \in Keyed => e.command[2] \in Keys
    /\ \A d \in Delivered :
          ZeroArg(d.call)
            => /\ ~d.raw.ok
               /\ d.raw.exc \in {RedisError} \cup TransportErrors
               /\ d.out = d.raw

\* an sadd without members answered with the arity error in direct mode,
\* and an sdiff without keys answered with it in a flushed batch
C16_Witness ==
    /\ \E d \in Direct :
          d.call = Plain("sadd", 0) /\ d.command = <<SADD, K>> /\ d.out = Arity
    /\ \E p \in Piped :
          p.call = Plain("sdiff", 0) /\ p.command = <<SDIFF>> /\ p.out = Arity

\* C17: a call in pipeline mode appends exactly one entry at the end of the
\* batch and leaves the entries queued before and the mode flag as they
\* were; a call in direct mode leaves the batch and the mode flag as they
\* were.
C17_BatchAppendOnly ==
    [][stats.calls' = stats.calls + 1
        => /\ _pipeline' = _pipeline
           /\ IF _pipeline
              THEN /\ Len(_pipeline_commands') = Len(_pipeline_commands) + 1
                   /\ \A i \in 1..Len(_pipeline_commands) :
                         _pipeline_commands'[i] = _pipeline_commands[i]
              ELSE _pipeline_commands' = _pipeline_commands]_vars

\* three entries queued one after the other
C17_Witness ==
    /\ _pipeline
    /\ Len(_pipeline_commands) = 3
    /\ _pipeline_commands[1].call.op = "sunion"
    /\ _pipeline_commands[2].call.op = "sscan"
    /\ _pipeline_commands[3].call.op = "sadd"

\* C18: with several direct sadd/srem calls in flight and resolved in any
\* order, each future holds the result of its own reply compared with its
\* own member count, or its own failure.
C18_OwnReplyOwnCount ==
    \A i \in 1..Len(futures) :
        (futures[i].call.op \in {"sadd", "srem"} /\ Resolved(futures[i].out))
            => LET f == futures[i]
               IN  /\ Resolved(f.raw)
                   /\ f.raw.ok => /\ f.raw.val.t = "int"
                                  /\ f.raw.val.i <= Len(f.command) - 2
                                  /\ f.out = Ok(IF f.raw.val.i = Len(f.command) - 2
                                                THEN BoolV(TRUE) ELSE f.raw.val)
                   /\ ~f.raw.ok => f.out = Fail(f.raw.exc)

\* two sadd calls in flight with one and two members, resolved in the
\* reverse order: the second added both members, the first none
C18_Witness ==
    /\ Len(futures) = 2
    /\ futures[1].command = <<SADD, K, A>>
    /\ futures[2].command = <<SADD, K, A, B>>
    /\ futures[1].out = Ok(IntV(0))
    /\ futures[2].out = Ok(BoolV(TRUE))

\* C19: every call hands its vector to exactly one collaborator exactly
\* once, one executor submission or one registration, and nothing else
\* submits or registers: a command whose executor result was a failure is
\* not submitted again.
C19_HandedOnce ==
    [][/\ stats.calls' \in {stats.calls, stats.calls + 1}
       /\ stats.execs' \in {stats.execs, stats.execs + 1}
       /\ stats.adds' \in {stats.adds, stats.adds + 1}
       /\ (stats.execs' - stats.execs) + (stats.adds' - stats.adds)
             = stats.calls' - stats.calls
       /\ Len(futures') = Len(futures) + (stats.execs' - stats.execs)]_vars

\* a direct call whose executor failure has reached the caller and a call
\* registered afterwards: two calls, one submission, one registration
C19_Witness ==
    /\ stats = [calls |-> 2, execs |-> 1, adds |-> 1]
    /\ Len(futures) = 1
    /\ futures[1].ran
    /\ futures[1].out = Fail("ConnectionError")
    /\ Len(_pipeline_commands) = 1

\* C20: when the server returns the cursor as the canonical decimal string s
\* and the caller passes the integer _format_response made of it as the
\* cursor of the next sscan call, the token at the cursor position of the
\* next vector is s, byte for byte.
C20_CursorRoundTrip ==
    probe.fn = "next sscan"
        => /\ Len(probe.command) = 3
           /\ probe.command[3] = probe.value.s

\* the round trip of the cursor 2^64-1
C20_Witness ==
    /\ probe.fn = "next sscan"
    /\ probe.value.s = Numerals[7].str
    /\ probe.cursor.mag = Numerals[7].mag
    /\ probe.command = <<SSCAN, K, Numerals[7].str>>

====
